---- MODULE Spec2Model ----
(***************************************************************************)
(* A model of ddbot's webhook handler (src/main.rs, webhook_handler): the  *)
(* event router, the authorization gate, the comment command parser, the   *)
(* label reconciliation and the file-path labeler, together with the part  *)
(* of the tracker (labels and assignees of issues, the repository's label  *)
(* vocabulary) that the handler's Tracker Client calls read and write.     *)
(*                                                                         *)
(* Text is modelled as a sequence of lexemes: a comment body is a sequence *)
(* such as <<"!ddnetbot", " ", "label", " ", "+", "bug", "\n", ...>>.  No   *)
(* lexeme is a proper prefix of another one, so the prefix tests of the    *)
(* code (str::strip_prefix) are the prefix tests on these sequences.       *)
(***************************************************************************)
EXTENDS Integers, Sequences, FiniteSets, TLC

(***************************************************************************)
(* Bounds of the model.                                                    *)
(***************************************************************************)
\* lines of a comment body built from the simple command lines
MaxLines == 2
\* tokens after the word "label" in a label command line
MaxTokens == 2
\* webhook deliveries handled one after the other in SpecSeq
MaxDeliveries == 2
\* changed files of a pull request
MaxFiles == 2

(***************************************************************************)
(* Text primitives (Rust's str methods used by the handler).               *)
(***************************************************************************)
SP == " "
NL == "\n"

\* str::starts_with / the Some case of str::strip_prefix
starts_with(s, p) == Len(s) >= Len(p) /\ SubSeq(s, 1, Len(p)) = p

\* str::strip_prefix, in its Some(rest) case
strip_prefix(s, p) == SubSeq(s, Len(p) + 1, Len(s))

\* str::trim_start: drops the leading whitespace
RECURSIVE trim_start(_)
trim_start(s) ==
    IF s # <<>> /\ Head(s) \in {SP, NL} THEN trim_start(Tail(s)) ELSE s

\* str::lines: the pieces between line feeds; a final empty piece is dropped
RECURSIVE SplitLines(_, _, _)
SplitLines(s, cur, acc) ==
    IF s = <<>> THEN (IF cur = <<>> THEN acc ELSE Append(acc, cur))
    ELSE IF Head(s) = NL THEN SplitLines(Tail(s), <<>>, Append(acc, cur))
    ELSE SplitLines(Tail(s), Append(cur, Head(s)), acc)

lines(body) == SplitLines(body, <<>>, <<>>)

\* str::split_ascii_whitespace: the maximal runs of non-whitespace
RECURSIVE SplitWs(_, _, _)
SplitWs(s, cur, acc) ==
    IF s = <<>> THEN (IF cur = <<>> THEN acc ELSE Append(acc, cur))
    ELSE IF Head(s) \in {SP, NL}
         THEN SplitWs(Tail(s), <<>>, IF cur = <<>> THEN acc ELSE Append(acc, cur))
    ELSE SplitWs(Tail(s), Append(cur, Head(s)), acc)

split_ascii_whitespace(s) == SplitWs(s, <<>>, <<>>)

\* the string a sequence of lexemes spells (a label name is a string)
RECURSIVE Spell(_)
Spell(s) == IF s = <<>> THEN "" ELSE Head(s) \o Spell(Tail(s))

\* str::contains for a pattern that is one lexeme
contains(s, p) == \E i \in 1..Len(s) : s[i] = p

(***************************************************************************)
(* The handler's pure computations.                                         *)
(***************************************************************************)
\* the literal the handler looks for at the start of a line (line 197)
TRIGGER == "!ddnetbot"

\* models::AuthorAssociation: the named variants, Other(_), and a variant
\* the handler's match does not name (the enum is non-exhaustive)
AuthorAssociations ==
    {"Collaborator", "Contributor", "FirstTimer", "FirstTimeContributor",
     "Mannequin", "Member", "None", "Owner", "Other", "Unrecognized"}

\* the match, were Contributor given the tier of Collaborator
privilege_level_contributor(assoc) ==
    CASE assoc \in {"Collaborator", "Contributor"} -> 1
      [] assoc \in {"Member", "Owner"} -> 2
      [] OTHER -> 0

\* the match on payload.comment.author_association
privilege_level(assoc) ==
    CASE assoc = "Collaborator" -> 1
      [] assoc = "Contributor" -> 0
      [] assoc = "FirstTimer" -> 0
      [] assoc = "FirstTimeContributor" -> 0
      [] assoc = "Mannequin" -> 0
      [] assoc = "Member" -> 2
      [] assoc = "None" -> 0
      [] assoc = "Owner" -> 2
      [] assoc = "Other" -> 0
      [] OTHER -> 0

\* the gate, were it left out
passes_gate_open(e) == TRUE

\* the gate, were it to look at the tier alone
passes_gate_tier_only(e) == privilege_level(e.assoc) # 0

\* the early return of the comment branch: TRUE when the handler goes on
passes_gate(e) ==
    ~(privilege_level(e.assoc) = 0 /\ e.commenter.id # e.author.id)

NoCommand == [cmd |-> "none", args |-> <<>>]

\* the chain of prefix tests applied to what follows the trigger
classify(rest) ==
    IF starts_with(rest, <<"claim">>) THEN [cmd |-> "claim", args |-> <<>>]
    ELSE IF starts_with(rest, <<"un", "claim">>)
         THEN [cmd |-> "unclaim", args |-> <<>>]
    ELSE IF starts_with(rest, <<"ready">>) THEN [cmd |-> "ready", args |-> <<>>]
    ELSE IF starts_with(rest, <<"author">>) THEN [cmd |-> "author", args |-> <<>>]
    ELSE IF starts_with(rest, <<"label">>)
         THEN [cmd |-> "label",
               args |-> split_ascii_whitespace(strip_prefix(rest, <<"label">>))]
    ELSE NoCommand

\* the loop body, were the rest of a line classified without the trigger
command_of_untriggered(line) ==
    IF starts_with(line, <<TRIGGER>>)
    THEN classify(trim_start(strip_prefix(line, <<TRIGGER>>)))
    ELSE classify(trim_start(line))

\* what the loop body does with one line of the comment
command_of(line) ==
    IF starts_with(line, <<TRIGGER>>)
    THEN classify(trim_start(strip_prefix(line, <<TRIGGER>>)))
    ELSE NoCommand

\* the loop over cmd_labels, were a + token not checked against repo_labels
RECURSIVE apply_tokens_unchecked(_, _, _)
apply_tokens_unchecked(current, repo, tokens) ==
    IF tokens = <<>> THEN current
    ELSE LET label == Head(tokens)
             name == Spell(Tail(label))
             next == IF starts_with(label, <<"+">>) THEN current \cup {name}
                     ELSE IF starts_with(label, <<"-">>)
                     THEN (IF name \in repo THEN current \ {name} ELSE current)
                     ELSE current
         IN  apply_tokens_unchecked(next, repo, Tail(tokens))

\* the loop over cmd_labels: each token edits current_labels in turn
RECURSIVE apply_tokens(_, _, _)
apply_tokens(current, repo, tokens) ==
    IF tokens = <<>> THEN current
    ELSE LET label == Head(tokens)
             name == Spell(Tail(label))
             next == IF starts_with(label, <<"+">>)
                     THEN (IF name \in repo THEN current \cup {name} ELSE current)
                     ELSE IF starts_with(label, <<"-">>)
                     THEN (IF name \in repo THEN current \ {name} ELSE current)
                     ELSE current
         IN  apply_tokens(next, repo, Tail(tokens))

\* the ifs, were the label of "map" spelled like its trigger
labels_of_file_map(filename) ==
    (IF contains(filename, "client") THEN <<"client">> ELSE <<>>)
    \o (IF contains(filename, "server") THEN <<"server">> ELSE <<>>)
    \o (IF contains(filename, "demo") THEN <<"demo">> ELSE <<>>)
    \o (IF contains(filename, "editor") THEN <<"editor">> ELSE <<>>)
    \o (IF contains(filename, "engine") THEN <<"engine">> ELSE <<>>)
    \o (IF contains(filename, "map") THEN <<"map">> ELSE <<>>)
    \o (IF contains(filename, "network") THEN <<"network">> ELSE <<>>)

\* the labels one changed file pushes onto add_labels, in the order of the ifs
labels_of_file(filename) ==
    (IF contains(filename, "client") THEN <<"client">> ELSE <<>>)
    \o (IF contains(filename, "server") THEN <<"server">> ELSE <<>>)
    \o (IF contains(filename, "demo") THEN <<"demo">> ELSE <<>>)
    \o (IF contains(filename, "editor") THEN <<"editor">> ELSE <<>>)
    \o (IF contains(filename, "engine") THEN <<"engine">> ELSE <<>>)
    \o (IF contains(filename, "map") THEN <<"maps">> ELSE <<>>)
    \o (IF contains(filename, "network") THEN <<"network">> ELSE <<>>)

\* the loop over the changed files
RECURSIVE labels_of_files(_)
labels_of_files(files) ==
    IF files = <<>> THEN <<>>
    ELSE labels_of_file(Head(files)) \o labels_of_files(Tail(files))

ToSet(s) == {s[i] : i \in 1..Len(s)}

\* current_labels.into_iter().collect(): the set as a Vec, in some order
RECURSIVE collect(_)
collect(S) ==
    IF S = {} THEN <<>>
    ELSE LET x == CHOOSE y \in S : TRUE IN <<x>> \o collect(S \ {x})

(***************************************************************************)
(* The inputs: users, issues, webhook events.                              *)
(***************************************************************************)
alice == [id |-> 1, login |-> "alice"]
bob == [id |-> 2, login |-> "bob"]
Users == {alice, bob}
Logins == {u.login : u \in Users}
Issues == {41, 42}

NoBody == [some |-> FALSE, text |-> <<>>]
Body(text) == [some |-> TRUE, text |-> text]

\* a decoded WebhookEvent, reduced to the fields the handler reads
Event(kind, action, inst, assoc, commenter, author, issue, body, files) ==
    [kind |-> kind, action |-> action, installation |-> inst, assoc |-> assoc,
     commenter |-> commenter, author |-> author, issue |-> issue,
     body |-> body, files |-> files]

Comment(action, assoc, commenter, author, issue, body) ==
    Event("IssueComment", action, TRUE, assoc, commenter, author, issue, body, <<>>)

Plain(kind, action, inst, issue, files) ==
    Event(kind, action, inst, "None", alice, alice, issue, NoBody, files)

\* command lines, and lines the parser has to tell from them
L_claim == <<TRIGGER, SP, "claim">>
L_unclaim == <<TRIGGER, SP, "un", "claim">>
L_ready == <<TRIGGER, SP, "ready">>
L_author == <<TRIGGER, SP, "author">>
L_bug == <<TRIGGER, SP, "bug">>
L_label == <<TRIGGER, SP, "label", SP, "+", "bug", SP, "-", "triage-needed">>
L_plain == <<"claim">>
L_indented == <<SP, TRIGGER, SP, "claim">>
L_quoted == <<"please", SP, TRIGGER, SP, "ready">>

SimpleLines == {L_claim, L_unclaim, L_ready, L_author, L_bug, L_label}

\* the tokens of a label command: with a sigil or without, on a name of the
\* vocabulary or not
Tokens ==
    {<<"+", "bug">>, <<"-", "bug">>, <<"-", "triage-needed">>,
     <<"+", "nolabel">>, <<"-", "nolabel">>, <<"bug">>}

RECURSIVE SeqsUpTo(_, _)
SeqsUpTo(S, n) ==
    IF n = 0 THEN {<<>>}
    ELSE LET shorter == SeqsUpTo(S, n - 1)
         IN  shorter \cup {Append(s, x) : s \in shorter, x \in S}

RECURSIVE Join(_, _)
Join(parts, sep) ==
    IF parts = <<>> THEN <<>>
    ELSE IF Len(parts) = 1 THEN parts[1]
    ELSE parts[1] \o <<sep>> \o Join(Tail(parts), sep)

LabelLines ==
    {<<TRIGGER, SP, "label">> \o <<SP>> \o Join(ts, SP) : ts \in SeqsUpTo(Tokens, MaxTokens)}

OddBodies ==
    {<<>>, <<NL>>, L_plain, L_indented, Join(<<L_plain, L_ready>>, NL),
     L_quoted, Join(<<L_quoted, L_plain>>, NL),
     Join(<<L_indented, L_author, L_plain>>, NL),
     <<TRIGGER, "ready">>, <<TRIGGER, SP, "claim", "ed">>,
     <<TRIGGER, SP, "label", "led", SP, "+", "bug">>,
     L_author \o <<NL, NL>> \o L_ready \o <<NL>>,
     <<TRIGGER, SP, SP, "label", SP, SP, "-", "bug", SP>>}

Bodies ==
    {Body(Join(ls, NL)) : ls \in SeqsUpTo(SimpleLines, MaxLines) \ {<<>>}}
    \cup {Body(l) : l \in LabelLines}
    \cup {Body(b) : b \in OddBodies}
    \cup {NoBody}

GateBodies == {NoBody, Body(L_claim), Body(Join(<<L_claim, L_label>>, NL))}

\* changed file paths: a path is the sequence of its pieces, cut so that
\* every occurrence of a trigger substring is a piece of its own
F_client == <<"src/", "client", "/render.cpp">>
F_readme == <<"docs/readme.md">>
F_mapview == <<"src/", "engine", "/", "client", "/", "map", "view.cpp">>
F_server == <<"src/game/", "server", "/player.cpp">>
F_tools == <<"src/tools/", "demo", "_", "editor", ".cpp">>
F_network == <<"src/", "network", ".h">>
F_mapshot == <<"data/", "map", "s/", "map", "shot.c">>
Files ==
    {F_client, F_readme, F_mapview, F_server, F_tools, F_network, F_mapshot}
FileLists == SeqsUpTo(Files, MaxFiles)

\* comment events from every author association, on the commenter's own
\* issue and on someone else's, for each action of the comment
GateEvents ==
    {Comment(act, assoc, alice, author, 42, body) :
        act \in {"Created", "Edited", "Deleted"}, assoc \in AuthorAssociations,
        author \in Users, body \in GateBodies}

\* created comments with every body: from a collaborator on someone else's
\* issue, and from an unassociated user on their own issue and on someone
\* else's
BodyEvents ==
    {Comment("Created", "Collaborator", alice, bob, 42, body) : body \in Bodies}
    \cup {Comment("Created", "None", alice, author, 42, body) :
            author \in Users, body \in Bodies}

OtherEvents ==
    {Plain("Ping", "", inst, 42, <<>>) : inst \in BOOLEAN}
    \cup {Plain("Push", "", TRUE, 42, <<>>)}
    \cup {Plain("PullRequest", act, TRUE, 42, fs) :
            act \in {"Opened", "Reopened"}, fs \in FileLists}
    \cup {Plain("PullRequest", "Opened", TRUE, 41, <<F_client, F_readme>>)}
    \cup {Plain("PullRequest", act, inst, 42, <<F_client>>) :
            act \in {"Edited", "Closed", "Opened"}, inst \in BOOLEAN}
    \cup {Plain("Issues", act, inst, i, <<>>) :
            act \in {"Opened", "Closed", "Edited", "Labeled"},
            inst \in BOOLEAN, i \in Issues}
    \cup {Event("IssueComment", "Created", FALSE, "Owner", bob, bob, i,
                Body(L_claim), <<>>) : i \in Issues}
    \cup {Comment("Created", "Member", bob, alice, 41, Body(b)) :
            b \in {L_claim, L_unclaim, L_ready, L_label}}

Events == GateEvents \cup BodyEvents \cup OtherEvents

(***************************************************************************)
(* State.  The tracker holds the labels and assignees of each issue and    *)
(* the repository's label vocabulary.  Each delivery is handled by its own *)
(* task (axum spawns one per request): the task's position is pc, its      *)
(* locals are event, lineNo, repo_labels, current_labels and add_labels.   *)
(* calls is the history of the Tracker Client calls the task issued,       *)
(* labels0 and assignees0 the labels and assignees its issue carried when  *)
(* the delivery arrived, and outcome how it ended: "ok" on a returned      *)
(* response, "panic" on an unwrap of Err or a todo!().  overlap tells      *)
(* whether some delivery arrived while the task of another was running.    *)
(***************************************************************************)
VARIABLES issueLabels, assignees, repoLabels, delivered,
          event, pc, lineNo, repo_labels, current_labels, add_labels,
          outcome, calls, labels0, assignees0, overlap

tracker == <<issueLabels, assignees, repoLabels>>
locals == <<repo_labels, current_labels, add_labels>>
vars == <<issueLabels, assignees, repoLabels, delivered,
          event, pc, lineNo, repo_labels, current_labels, add_labels,
          outcome, calls, labels0, assignees0, overlap>>

Handlers == 1..MaxDeliveries

WAITING_FOR_REVIEWS == "waiting-for-reviews"
WAITING_ON_AUTHOR == "waiting-on-author"
TRIAGE_NEEDED == "triage-needed"

\* the vocabularies a repository starts with
Vocabularies ==
    {{"bug", TRIAGE_NEEDED, "client"},
     {TRIAGE_NEEDED, "client", WAITING_FOR_REVIEWS, WAITING_ON_AUTHOR}}

NoEvent == Plain("", "", FALSE, 42, <<>>)

\* the service is up, no delivery received; an issue carries labels of the
\* repository's vocabulary only
Init ==
    /\ repoLabels \in Vocabularies
    /\ issueLabels \in [Issues -> SUBSET (repoLabels \ {"client"})]
    /\ issueLabels[41] = {}
    /\ assignees \in [Issues -> SUBSET {"alice"}]
    /\ assignees[41] = {}
    /\ delivered = 0
    /\ event = [h \in Handlers |-> NoEvent]
    /\ pc = [h \in Handlers |-> "idle"]
    /\ lineNo = [h \in Handlers |-> 0]
    /\ repo_labels = [h \in Handlers |-> {}]
    /\ current_labels = [h \in Handlers |-> {}]
    /\ add_labels = [h \in Handlers |-> <<>>]
    /\ outcome = [h \in Handlers |-> "none"]
    /\ calls = [h \in Handlers |-> <<>>]
    /\ labels0 = [h \in Handlers |-> {}]
    /\ assignees0 = [h \in Handlers |-> {}]
    /\ overlap = FALSE

(***************************************************************************)
(* The handler's control flow between two Tracker Client calls.            *)
(***************************************************************************)
Returned == [pc |-> "done", outcome |-> "ok", line |-> 0]
Panicked == [pc |-> "done", outcome |-> "panic", line |-> 0]
Awaiting(p, line) == [pc |-> p, outcome |-> "none", line |-> line]

\* the call a command line starts with
first_call(cmd) ==
    CASE cmd = "claim" -> "add_assignees"
      [] cmd = "unclaim" -> "remove_assignees"
      [] cmd = "ready" -> "ready_add"
      [] cmd = "author" -> "author_add"
      [] cmd = "label" -> "list_repo"

\* the first line at or after `from` that holds a command, 0 when none does
RECURSIVE first_command(_, _)
first_command(ls, from) ==
    IF from > Len(ls) THEN 0
    ELSE IF command_of(ls[from]).cmd # "none" THEN from
    ELSE first_command(ls, from + 1)

\* the loop, were it to leave (break) after the first command
resume_break(ls, from) ==
    LET i == first_command(ls, from)
    IN  IF from > 1 \/ i = 0 THEN Returned
        ELSE Awaiting(first_call(command_of(ls[i]).cmd), i)

\* the loop, were it to start one line late
resume_skip(ls, from) ==
    LET i == first_command(ls, from + 1)
    IN  IF i = 0 THEN Returned
        ELSE Awaiting(first_call(command_of(ls[i]).cmd), i)

\* the for loop over body.lines(), entered at line `from`: it runs to the
\* first line that holds a command, or to the end of the body
resume(ls, from) ==
    LET i == first_command(ls, from)
    IN  IF i = 0 THEN Returned
        ELSE Awaiting(first_call(command_of(ls[i]).cmd), i)

\* the match on event.kind, up to the first call or the return
route(e) ==
    IF ~e.installation THEN Returned
    ELSE CASE e.kind = "Ping" -> Returned
           [] e.kind = "PullRequest" ->
                (IF e.action = "Edited" THEN Panicked
                 ELSE IF e.action \in {"Opened", "Reopened"}
                      THEN Awaiting("list_files", 0)
                 ELSE Returned)
           [] e.kind = "Issues" ->
                (IF e.action = "Opened" THEN Awaiting("add_triage", 0)
                 ELSE Returned)
           [] e.kind = "IssueComment" ->
                (IF ~passes_gate(e) THEN Returned
                 ELSE IF ~e.body.some THEN Returned
                 ELSE resume(lines(e.body.text), 1))
           [] OTHER -> Returned

\* the command of the line the task is at
command_at(h) == command_of(lines(event[h].body.text)[lineNo[h]])

Call(op, issue, labels, login) ==
    [op |-> op, issue |-> issue, labels |-> labels, login |-> login, ok |-> TRUE]

\* the Tracker Client call the task is about to issue
next_call(h) ==
    LET e == event[h]
    IN  CASE pc[h] = "list_files" -> Call("listFiles", e.issue, <<>>, "")
          [] pc[h] = "add_labels" -> Call("addLabels", e.issue, add_labels[h], "")
          [] pc[h] = "add_triage" -> Call("addLabels", e.issue, <<TRIAGE_NEEDED>>, "")
          [] pc[h] = "add_assignees" ->
                Call("addAssignees", e.issue, <<>>, e.commenter.login)
          [] pc[h] = "remove_assignees" ->
                Call("removeAssignees", e.issue, <<>>, e.commenter.login)
          [] pc[h] = "ready_add" ->
                Call("addLabels", e.issue, <<WAITING_FOR_REVIEWS>>, "")
          [] pc[h] = "ready_remove" ->
                Call("removeLabel", e.issue, <<WAITING_ON_AUTHOR>>, "")
          [] pc[h] = "author_add" ->
                Call("addLabels", e.issue, <<WAITING_ON_AUTHOR>>, "")
          [] pc[h] = "author_remove" ->
                Call("removeLabel", e.issue, <<WAITING_FOR_REVIEWS>>, "")
          [] pc[h] = "list_repo" -> Call("listLabelsForRepo", e.issue, <<>>, "")
          [] pc[h] = "list_issue" -> Call("listLabelsForIssue", e.issue, <<>>, "")
          [] pc[h] = "replace_all" ->
                Call("replaceAllLabels", e.issue, collect(current_labels[h]), "")

CallSites ==
    {"list_files", "add_labels", "add_triage", "add_assignees",
     "remove_assignees", "ready_add", "ready_remove", "author_add",
     "author_remove", "list_repo", "list_issue", "replace_all"}

(***************************************************************************)
(* The tracker's side of the calls.                                        *)
(***************************************************************************)
\* labels are added to the issue; a label the repository lacks is created
TrackerAddLabels(c) ==
    /\ issueLabels' = [issueLabels EXCEPT ![c.issue] = @ \cup ToSet(c.labels)]
    /\ repoLabels' = repoLabels \cup ToSet(c.labels)
    /\ UNCHANGED assignees

TrackerRemoveLabel(c) ==
    /\ issueLabels' = [issueLabels EXCEPT ![c.issue] = @ \ ToSet(c.labels)]
    /\ UNCHANGED <<repoLabels, assignees>>

TrackerReplaceAllLabels(c) ==
    /\ issueLabels' = [issueLabels EXCEPT ![c.issue] = ToSet(c.labels)]
    /\ repoLabels' = repoLabels \cup ToSet(c.labels)
    /\ UNCHANGED assignees

TrackerAddAssignees(c) ==
    /\ assignees' = [assignees EXCEPT ![c.issue] = @ \cup {c.login}]
    /\ UNCHANGED <<issueLabels, repoLabels>>

TrackerRemoveAssignees(c) ==
    /\ assignees' = [assignees EXCEPT ![c.issue] = @ \ {c.login}]
    /\ UNCHANGED <<issueLabels, repoLabels>>

(***************************************************************************)
(* The task's steps.                                                       *)
(***************************************************************************)
\* the task moves to position r and its call is recorded
Goto(h, r) ==
    /\ pc' = [pc EXCEPT ![h] = r.pc]
    /\ outcome' = [outcome EXCEPT ![h] = r.outcome]
    /\ lineNo' = [lineNo EXCEPT ![h] = IF r.line = 0 THEN @ ELSE r.line]

Log(h, c) == calls' = [calls EXCEPT ![h] = Append(@, c)]

\* `continue`, or the end of the loop body: on to the next line
NextLine(h) == Goto(h, resume(lines(event[h].body.text), lineNo[h] + 1))

\* no task is running
Quiet == \A k \in Handlers : pc[k] \in {"idle", "done"}

\* a delivery is decoded and routed up to its first call
Receive(h, E) ==
    /\ pc[h] = "idle"
    /\ h = delivered + 1
    /\ \E e \in E :
        /\ event' = [event EXCEPT ![h] = e]
        /\ labels0' = [labels0 EXCEPT ![h] = issueLabels[e.issue]]
        /\ assignees0' = [assignees0 EXCEPT ![h] = assignees[e.issue]]
        /\ Goto(h, route(e))
    /\ delivered' = delivered + 1
    /\ overlap' = (overlap \/ ~Quiet)
    /\ UNCHANGED <<tracker, locals, calls>>

\* pulls.list_files: the changed files, from which add_labels is built
ListFiles(h) ==
    /\ pc[h] = "list_files"
    /\ Log(h, next_call(h))
    /\ add_labels' = [add_labels EXCEPT ![h] = labels_of_files(event[h].files)]
    /\ Goto(h, Awaiting("add_labels", 0))
    /\ UNCHANGED <<tracker, delivered, event, repo_labels, current_labels, labels0, assignees0, overlap>>

\* issues.add_labels(payload.number, &add_labels)
AddPathLabels(h) ==
    /\ pc[h] = "add_labels"
    /\ Log(h, next_call(h))
    /\ TrackerAddLabels(next_call(h))
    /\ Goto(h, Returned)
    /\ UNCHANGED <<delivered, event, locals, labels0, assignees0, overlap>>

\* issues.add_labels(.., ["triage-needed"]) on an opened issue
AddTriageLabel(h) ==
    /\ pc[h] = "add_triage"
    /\ Log(h, next_call(h))
    /\ TrackerAddLabels(next_call(h))
    /\ Goto(h, Returned)
    /\ UNCHANGED <<delivered, event, locals, labels0, assignees0, overlap>>

\* claim
AddAssignees(h) ==
    /\ pc[h] = "add_assignees"
    /\ Log(h, next_call(h))
    /\ TrackerAddAssignees(next_call(h))
    /\ NextLine(h)
    /\ UNCHANGED <<delivered, event, locals, labels0, assignees0, overlap>>

\* unclaim
RemoveAssignees(h) ==
    /\ pc[h] = "remove_assignees"
    /\ Log(h, next_call(h))
    /\ TrackerRemoveAssignees(next_call(h))
    /\ NextLine(h)
    /\ UNCHANGED <<delivered, event, locals, labels0, assignees0, overlap>>

\* ready, were its first call a toggle of waiting-for-reviews
ReadyToggleLabel(h) ==
    /\ pc[h] = "ready_add"
    /\ Log(h, next_call(h))
    /\ IF WAITING_FOR_REVIEWS \in issueLabels[event[h].issue]
       THEN TrackerRemoveLabel(next_call(h))
       ELSE TrackerAddLabels(next_call(h))
    /\ Goto(h, Awaiting("ready_remove", 0))
    /\ UNCHANGED <<delivered, event, locals, labels0, assignees0, overlap>>

\* ready: the add, then the remove
ReadyAddLabel(h) ==
    /\ pc[h] = "ready_add"
    /\ Log(h, next_call(h))
    /\ TrackerAddLabels(next_call(h))
    /\ Goto(h, Awaiting("ready_remove", 0))
    /\ UNCHANGED <<delivered, event, locals, labels0, assignees0, overlap>>

\* ready, were the remove_label call left out
ReadyRemoveSkipped(h) ==
    /\ pc[h] = "ready_remove"
    /\ NextLine(h)
    /\ UNCHANGED <<tracker, calls, delivered, event, locals, labels0, assignees0, overlap>>

ReadyRemoveLabel(h) ==
    /\ pc[h] = "ready_remove"
    /\ Log(h, next_call(h))
    /\ TrackerRemoveLabel(next_call(h))
    /\ NextLine(h)
    /\ UNCHANGED <<delivered, event, locals, labels0, assignees0, overlap>>

\* author: the add, then the remove
AuthorAddLabel(h) ==
    /\ pc[h] = "author_add"
    /\ Log(h, next_call(h))
    /\ TrackerAddLabels(next_call(h))
    /\ Goto(h, Awaiting("author_remove", 0))
    /\ UNCHANGED <<delivered, event, locals, labels0, assignees0, overlap>>

AuthorRemoveLabel(h) ==
    /\ pc[h] = "author_remove"
    /\ Log(h, next_call(h))
    /\ TrackerRemoveLabel(next_call(h))
    /\ NextLine(h)
    /\ UNCHANGED <<delivered, event, locals, labels0, assignees0, overlap>>

\* label: the repository's vocabulary is read
ListLabelsForRepo(h) ==
    /\ pc[h] = "list_repo"
    /\ Log(h, next_call(h))
    /\ repo_labels' = [repo_labels EXCEPT ![h] = repoLabels]
    /\ Goto(h, Awaiting("list_issue", 0))
    /\ UNCHANGED <<tracker, delivered, event, current_labels, add_labels, labels0, assignees0, overlap>>

\* label, were current_labels one set shared by the tasks
ListLabelsShared(h) ==
    /\ pc[h] = "list_issue"
    /\ Log(h, next_call(h))
    /\ current_labels' =
         [k \in Handlers |->
            apply_tokens(issueLabels[event[h].issue], repo_labels[h],
                         command_at(h).args)]
    /\ Goto(h, Awaiting("replace_all", 0))
    /\ UNCHANGED <<tracker, delivered, event, repo_labels, add_labels, labels0, assignees0, overlap>>

\* label: the issue's labels are read and the tokens applied to them
ListLabelsForIssue(h) ==
    /\ pc[h] = "list_issue"
    /\ Log(h, next_call(h))
    /\ current_labels' =
         [current_labels EXCEPT ![h] =
            apply_tokens(issueLabels[event[h].issue], repo_labels[h],
                         command_at(h).args)]
    /\ Goto(h, Awaiting("replace_all", 0))
    /\ UNCHANGED <<tracker, delivered, event, repo_labels, add_labels, labels0, assignees0, overlap>>

\* label, were the edited set added to the issue's labels
ReplaceByAdding(h) ==
    /\ pc[h] = "replace_all"
    /\ Log(h, next_call(h))
    /\ TrackerAddLabels(next_call(h))
    /\ NextLine(h)
    /\ UNCHANGED <<delivered, event, locals, labels0, assignees0, overlap>>

\* label: the edited set overwrites the issue's labels
ReplaceAllLabels(h) ==
    /\ pc[h] = "replace_all"
    /\ Log(h, next_call(h))
    /\ TrackerReplaceAllLabels(next_call(h))
    /\ NextLine(h)
    /\ UNCHANGED <<delivered, event, locals, labels0, assignees0, overlap>>

\* any call may come back Err: the unwrap panics and the task ends there
CallFails(h) ==
    /\ pc[h] \in CallSites
    /\ Log(h, [next_call(h) EXCEPT !.ok = FALSE])
    /\ Goto(h, Panicked)
    /\ UNCHANGED <<tracker, delivered, event, locals, labels0, assignees0, overlap>>

Step(h) ==
    \/ ListFiles(h)
    \/ AddPathLabels(h)
    \/ AddTriageLabel(h)
    \/ AddAssignees(h)
    \/ RemoveAssignees(h)
    \/ ReadyAddLabel(h)
    \/ ReadyRemoveLabel(h)
    \/ AuthorAddLabel(h)
    \/ AuthorRemoveLabel(h)
    \/ ListLabelsForRepo(h)
    \/ ListLabelsForIssue(h)
    \/ ReplaceAllLabels(h)
    \/ CallFails(h)

\* one delivery, drawn from all the events
Next == Receive(1, Events) \/ Step(1)

Spec == Init /\ [][Next]_vars

(***************************************************************************)
(* Deliveries handled one after the other: a delivery arrives when no task *)
(* is running.                                                             *)
(***************************************************************************)
SeqEvents ==
    {Comment("Created", "Collaborator", alice, bob, 42, Body(l)) :
        l \in {L_ready, L_author, L_claim, L_unclaim, L_label}}
    \cup {Comment("Created", "Member", bob, bob, 42, Body(l)) :
            l \in {L_claim, L_unclaim}}
    \cup {Comment("Created", "None", alice, bob, 42, Body(L_claim))}
    \cup {Plain("PullRequest", "Opened", TRUE, 42, <<F_client>>),
          Plain("Issues", "Opened", TRUE, 42, <<>>)}

NextSeq ==
    \E h \in Handlers : (Quiet /\ Receive(h, SeqEvents)) \/ Step(h)

SpecSeq == Init /\ [][NextSeq]_vars

(***************************************************************************)
(* Two deliveries handled concurrently: the second may arrive while the    *)
(* task of the first is running, and the tasks' calls interleave in every  *)
(* order.  The first delivery is about issue 42, the second about issue 42 *)
(* or issue 41.                                                            *)
(***************************************************************************)
L_add_bug == <<TRIGGER, SP, "label", SP, "+", "bug">>
L_add_client == <<TRIGGER, SP, "label", SP, "+", "client">>
L_remove_bug == <<TRIGGER, SP, "label", SP, "-", "bug">>
L_remove_triage == <<TRIGGER, SP, "label", SP, "-", "triage-needed">>

ConcFirst ==
    {Comment("Created", "Collaborator", alice, bob, 42, Body(l)) :
        l \in {L_ready, L_author, Join(<<L_author, L_ready>>, NL), L_claim,
               L_unclaim, L_add_bug, L_add_client, L_remove_bug,
               L_remove_triage}}
    \cup {Plain("PullRequest", "Opened", TRUE, 42, <<F_client>>),
          Plain("Issues", "Opened", TRUE, 42, <<>>)}

ConcEvents ==
    ConcFirst
    \cup {Comment("Created", "Member", bob, alice, 41, Body(l)) :
            l \in {L_ready, L_claim, L_add_bug, L_add_client}}
    \cup {Plain("PullRequest", "Opened", TRUE, 41, <<F_mapview>>),
          Plain("Issues", "Opened", TRUE, 41, <<>>)}

ConcHandlers == {1, 2}

NextConc ==
    \/ Receive(1, ConcFirst)
    \/ Receive(2, ConcEvents)
    \/ \E h \in ConcHandlers : Step(h)

SpecConc == Init /\ [][NextConc]_vars

(***************************************************************************)
(* Vocabulary of the properties.                                           *)
(***************************************************************************)
IsComment(h) == pc[h] # "idle" /\ event[h].kind = "IssueComment"

\* the comment reached the command loop's precondition: a client was built
Routed(h) == IsComment(h) /\ event[h].installation

TierZero ==
    {"Contributor", "FirstTimer", "FirstTimeContributor", "Mannequin", "None",
     "Other", "Unrecognized"}

Authorized(e) ==
    e.assoc \in {"Collaborator", "Member", "Owner"} \/ e.commenter.id = e.author.id

IsPrefix(s, t) == Len(s) <= Len(t) /\ SubSeq(t, 1, Len(s)) = s

Ops(h) == [i \in 1..Len(calls[h]) |-> calls[h][i].op]

IsWrite(c) ==
    c.op \in {"addLabels", "removeLabel", "replaceAllLabels", "addAssignees",
              "removeAssignees"}

\* the calls of a task that change the tracker, in the order issued
Plan(h) == SelectSeq(calls[h], IsWrite)

AllOk(h) == \A i \in 1..Len(calls[h]) : calls[h][i].ok

\* a panic of a comment's task comes from a failed call, the last one
PanicIsFailedCall(h) ==
    outcome[h] = "panic" =>
        calls[h] # <<>> /\ ~calls[h][Len(calls[h])].ok

\* the calls a command makes, by name
ops_of(cmd) ==
    CASE cmd = "claim" -> <<"addAssignees">>
      [] cmd = "unclaim" -> <<"removeAssignees">>
      [] cmd = "ready" -> <<"addLabels", "removeLabel">>
      [] cmd = "author" -> <<"addLabels", "removeLabel">>
      [] cmd = "label" ->
            <<"listLabelsForRepo", "listLabelsForIssue", "replaceAllLabels">>
      [] OTHER -> <<>>

\* the commands of the lines of a body, in order
RECURSIVE Cmds(_)
Cmds(ls) ==
    IF ls = <<>> THEN <<>>
    ELSE (IF command_of(Head(ls)).cmd = "none" THEN <<>>
          ELSE <<command_of(Head(ls))>>) \o Cmds(Tail(ls))

CmdsOf(h) == Cmds(lines(event[h].body.text))
CmdNames(h) == LET cs == CmdsOf(h) IN [i \in 1..Len(cs) |-> cs[i].cmd]

RECURSIVE ExpectedOps(_)
ExpectedOps(cs) ==
    IF cs = <<>> THEN <<>> ELSE ops_of(Head(cs).cmd) \o ExpectedOps(Tail(cs))

\* the names a label command asks to add, and to remove
Adds(tokens) ==
    {Spell(Tail(tokens[i])) : i \in {j \in 1..Len(tokens) : Head(tokens[j]) = "+"}}
Removes(tokens) ==
    {Spell(Tail(tokens[i])) : i \in {j \in 1..Len(tokens) : Head(tokens[j]) = "-"}}

Desired(current, vocabulary, tokens) ==
    (current \cup (Adds(tokens) \cap vocabulary)) \ (Removes(tokens) \cap vocabulary)

\* the task is about to overwrite the labels of its issue
AtReplace(h) == IsComment(h) /\ pc[h] = "replace_all"

(***************************************************************************)
(* C1.  A comment whose author association is of tier 0 (Contributor,      *)
(* FirstTimer, FirstTimeContributor, Mannequin, None, Other, unrecognized) *)
(* and whose commenter is not the issue's author makes the handler issue   *)
(* no Tracker Client call, whatever its body holds: the task has returned  *)
(* as soon as the event is routed.                                         *)
(***************************************************************************)
C1_Stranger(h) ==
    /\ IsComment(h)
    /\ event[h].assoc \in TierZero
    /\ event[h].commenter.id # event[h].author.id

C1_StrangerIssuesNoCall ==
    \A h \in Handlers :
        C1_Stranger(h) => calls[h] = <<>> /\ pc[h] = "done" /\ outcome[h] = "ok"

C1_Witness ==
    \E h \in Handlers :
        /\ C1_Stranger(h)
        /\ event[h].installation
        /\ event[h].body.some
        /\ CmdNames(h) = <<"claim", "label">>
        /\ pc[h] = "done"

(***************************************************************************)
(* C2.  A commenter of tier >= 1 (Collaborator, Member, Owner), or one who *)
(* is the issue's author whatever the tier, has every command line of the  *)
(* comment executed: the calls issued are, in order, those of the command  *)
(* lines of the body, all of them once the handler has returned, each on   *)
(* the comment's issue; a tier-0 author's claim line gives addAssignees.   *)
(***************************************************************************)
C2_AuthorizedCommandsExecuted ==
    \A h \in Handlers :
        (Routed(h) /\ Authorized(event[h]) /\ event[h].body.some) =>
            LET expected == ExpectedOps(CmdsOf(h)) IN
            /\ IsPrefix(Ops(h), expected)
            /\ \A i \in 1..Len(calls[h]) : calls[h][i].issue = event[h].issue
            /\ outcome[h] = "ok" => Ops(h) = expected /\ AllOk(h)
            /\ pc[h] = "done" /\ AllOk(h) => outcome[h] = "ok"
            /\ \A i \in 1..Len(calls[h]) :
                  calls[h][i].op \in {"addAssignees", "removeAssignees"} =>
                      calls[h][i].login = event[h].commenter.login

C2_Witness ==
    \E h \in Handlers :
        /\ Routed(h)
        /\ event[h].assoc \in TierZero
        /\ event[h].commenter.id = event[h].author.id
        /\ CmdNames(h) = <<"claim", "ready">>
        /\ outcome[h] = "ok"
        /\ calls[h][1] = Call("addAssignees", event[h].issue, <<>>, "alice")
        /\ "alice" \in assignees[event[h].issue]

(***************************************************************************)
(* C3.  A label command issues exactly one replaceAllLabels call, and no   *)
(* addLabels or removeLabel call, and the set submitted is                 *)
(* (current \cup adds) \ removes, adds and removes being the + and - names *)
(* of the line that the repository's vocabulary holds.                     *)
(***************************************************************************)
C3_LabelCommandSubmitsDesired ==
    \A h \in Handlers :
        /\ AtReplace(h) =>
              ToSet(next_call(h).labels) =
                  Desired(issueLabels[event[h].issue], repoLabels, command_at(h).args)
        /\ (Routed(h) /\ Authorized(event[h]) /\ CmdNames(h) = <<"label">>
                /\ outcome[h] = "ok") =>
              Ops(h) = <<"listLabelsForRepo", "listLabelsForIssue", "replaceAllLabels">>

(***************************************************************************)
(* C4.  When a label command holds both +a and -a for a name a of the      *)
(* vocabulary, in either order, the set submitted to replaceAllLabels      *)
(* excludes a.                                                             *)
(***************************************************************************)
C4_RemovalTakesPrecedence ==
    \A h \in Handlers :
        AtReplace(h) =>
            \A a \in Adds(command_at(h).args) \cap Removes(command_at(h).args) :
                a \in repoLabels => a \notin ToSet(next_call(h).labels)

(***************************************************************************)
(* C5.  A name that a label command references with + or - and that the    *)
(* repository's vocabulary (as the handler listed it) lacks appears in no  *)
(* call made for the command; when the comment holds label commands only,  *)
(* the name is neither put on the issue nor created in the repository, and *)
(* the task panics only on a call that came back failed.                   *)
(***************************************************************************)
C5_LabelLines(h) ==
    LET cs == CmdsOf(h) IN {i \in 1..Len(cs) : cs[i].cmd = "label"}

C5_Referenced(h) ==
    LET cs == CmdsOf(h)
    IN  UNION {Adds(cs[i].args) \cup Removes(cs[i].args) :
                  i \in {j \in 1..Len(cs) : cs[j].cmd = "label"}}

C5_VocabularyListed(h) ==
    \E i \in 1..Len(calls[h]) :
        calls[h][i].op = "listLabelsForRepo" /\ calls[h][i].ok

C5_LabelOnly(h) == C5_LabelLines(h) = 1..Len(CmdsOf(h))

C5_UnknownNameNeverEmitted ==
    \A h \in Handlers :
        (Routed(h) /\ event[h].body.some /\ C5_VocabularyListed(h)) =>
            \A n \in C5_Referenced(h) \ repo_labels[h] :
                /\ AtReplace(h) => n \notin ToSet(next_call(h).labels)
                /\ \A i \in 1..Len(calls[h]) :
                      calls[h][i].op \in ToSet(ops_of("label")) =>
                          n \notin ToSet(calls[h][i].labels)
                /\ C5_LabelOnly(h) =>
                      /\ n \notin issueLabels[event[h].issue]
                      /\ n \notin repoLabels
                      /\ PanicIsFailedCall(h)

C5_Witness ==
    \E h \in Handlers :
        /\ Routed(h)
        /\ CmdNames(h) = <<"label">>
        /\ {"bug", "nolabel"} \subseteq Adds(CmdsOf(h)[1].args)
        /\ "bug" \notin repo_labels[h]
        /\ outcome[h] = "ok"
        /\ Ops(h) = ops_of("label")

(***************************************************************************)
(* C6.  The writes of one comment follow the order of its command lines:   *)
(* the body "<trigger> claim" / "<trigger> label +bug -triage-needed" from *)
(* a collaborator, on an issue labelled {triage-needed} in a repository    *)
(* whose vocabulary is {bug, triage-needed, client}, gives the writes      *)
(* addAssignees(actor) then replaceAllLabels([bug]) and no other write;    *)
(* the two reads of the label command come between them.                   *)
(***************************************************************************)
C6_Scenario(h) ==
    /\ Routed(h)
    /\ event[h].action = "Created"
    /\ event[h].assoc = "Collaborator"
    /\ event[h].body = Body(Join(<<L_claim, L_label>>, NL))
    /\ labels0[h] = {TRIAGE_NEEDED}
    /\ repoLabels = {"bug", TRIAGE_NEEDED, "client"}

C6_Expected(h) ==
    <<Call("addAssignees", event[h].issue, <<>>, event[h].commenter.login),
      Call("replaceAllLabels", event[h].issue, <<"bug">>, "")>>

C6_WritesInLineOrder ==
    \A h \in Handlers :
        C6_Scenario(h) =>
            /\ AllOk(h) => IsPrefix(Plan(h), C6_Expected(h))
            /\ outcome[h] = "ok" =>
                  /\ Plan(h) = C6_Expected(h)
                  /\ Ops(h) = <<"addAssignees", "listLabelsForRepo",
                                "listLabelsForIssue", "replaceAllLabels">>
                  /\ issueLabels[event[h].issue] = {"bug"}
                  /\ event[h].commenter.login \in assignees[event[h].issue]

C6_Witness ==
    \E h \in Handlers :
        C6_Scenario(h) /\ outcome[h] = "ok" /\ Plan(h) = C6_Expected(h)

(***************************************************************************)
(* C7.  A later command line overrides an earlier one: after an authorized *)
(* comment with an author line then a ready line is handled, the issue     *)
(* carries waiting-for-reviews and not waiting-on-author; after ready then *)
(* author, waiting-on-author and not waiting-for-reviews; whatever labels  *)
(* the issue started with.                                                 *)
(***************************************************************************)
C7_Handled(h, names) ==
    /\ Routed(h)
    /\ outcome[h] = "ok"
    /\ Authorized(event[h])
    /\ CmdNames(h) = names

C7_LaterLineWins ==
    \A h \in Handlers :
        /\ C7_Handled(h, <<"author", "ready">>) =>
              /\ WAITING_FOR_REVIEWS \in issueLabels[event[h].issue]
              /\ WAITING_ON_AUTHOR \notin issueLabels[event[h].issue]
        /\ C7_Handled(h, <<"ready", "author">>) =>
              /\ WAITING_ON_AUTHOR \in issueLabels[event[h].issue]
              /\ WAITING_FOR_REVIEWS \notin issueLabels[event[h].issue]

C7_Witness ==
    \E h \in Handlers :
        /\ C7_Handled(h, <<"author", "ready">>)
        /\ labels0[h] = {WAITING_ON_AUTHOR, TRIAGE_NEEDED}
        /\ issueLabels[event[h].issue] = {WAITING_FOR_REVIEWS, TRIAGE_NEEDED}

(***************************************************************************)
(* C8.  ready and author are idempotent: when the same ready (or author)   *)
(* comment is handled twice in a row, the labels of the issue during and   *)
(* after the second handling are those after the first, whatever labels    *)
(* the issue started with, the label to remove present or not, and whether *)
(* or not a call of the second handling fails.                             *)
(***************************************************************************)
C8_Twice(h, line) ==
    /\ h + 1 \in Handlers
    /\ event[h].kind = "IssueComment"
    /\ event[h].body = Body(line)
    /\ event[h + 1] = event[h]
    /\ outcome[h] = "ok"
    /\ pc[h + 1] # "idle"
    /\ h + 2 \in Handlers => pc[h + 2] = "idle"

C8_SecondHandlingChangesNothing ==
    \A h \in Handlers : \A line \in {L_ready, L_author} :
        C8_Twice(h, line) => issueLabels[event[h].issue] = labels0[h + 1]

C8_Witness ==
    \E h \in Handlers :
        /\ C8_Twice(h, L_ready)
        /\ outcome[h + 1] = "ok"
        /\ WAITING_ON_AUTHOR \notin labels0[h]
        /\ WAITING_FOR_REVIEWS \notin labels0[h]
        /\ issueLabels[event[h].issue] = labels0[h] \cup {WAITING_FOR_REVIEWS}

(***************************************************************************)
(* C9.  Every event that is not an opened issue, a created issue comment,  *)
(* or an opened or reopened pull request is a no-op: the handler issues no *)
(* Tracker Client call for it.                                             *)
(***************************************************************************)
C9_Dispatched(e) ==
    <<e.kind, e.action>> \in
        {<<"Issues", "Opened">>, <<"IssueComment", "Created">>,
         <<"PullRequest", "Opened">>, <<"PullRequest", "Reopened">>}

C9_OtherEventsIssueNoCall ==
    \A h \in Handlers :
        (pc[h] # "idle" /\ ~C9_Dispatched(event[h])) =>
            calls[h] = <<>>

(***************************************************************************)
(* C10.  An edited pull request is a no-op that is not handled: no call is *)
(* issued and the handler returns its response, it does not abort.         *)
(***************************************************************************)
C10_EditedPullRequestReturns ==
    \A h \in Handlers :
        (pc[h] # "idle" /\ event[h].kind = "PullRequest"
            /\ event[h].action = "Edited") =>
            calls[h] = <<>> /\ pc[h] = "done" /\ outcome[h] = "ok"

(***************************************************************************)
(* C11.  A delivery in which a Tracker Client call fails still ends with   *)
(* an HTTP acknowledgment returned by the handler, and the failed call is  *)
(* the last call of the delivery (the failure is not reported through the  *)
(* tracker).                                                               *)
(***************************************************************************)
C11_FailedCallStillAcknowledged ==
    \A h \in Handlers :
        (pc[h] = "done" /\ ~AllOk(h)) =>
            /\ outcome[h] = "ok"
            /\ \A i \in 1..Len(calls[h]) : ~calls[h][i].ok => i = Len(calls[h])

(***************************************************************************)
(* C12.  For an opened or reopened pull request the set of labels passed   *)
(* to addLabels is exactly the set of the labels whose trigger substring   *)
(* occurs in at least one changed path, under the table client -> client,  *)
(* server -> server, demo -> demo, editor -> editor, engine -> engine,     *)
(* map -> maps, network -> network; the handler lists the files and then   *)
(* makes that one addLabels call on the pull request.                      *)
(***************************************************************************)
C12_Table ==
    {<<"client", "client">>, <<"server", "server">>, <<"demo", "demo">>,
     <<"editor", "editor">>, <<"engine", "engine">>, <<"map", "maps">>,
     <<"network", "network">>}

C12_Expected(files) ==
    {row[2] : row \in
        {r \in C12_Table :
            \E i \in 1..Len(files) : \E j \in 1..Len(files[i]) :
                files[i][j] = r[1]}}

C12_Labeled(h) ==
    /\ pc[h] # "idle"
    /\ event[h].kind = "PullRequest"
    /\ event[h].action \in {"Opened", "Reopened"}
    /\ event[h].installation

C12_PathLabelsMatchTable ==
    \A h \in Handlers :
        C12_Labeled(h) =>
            /\ \A i \in 1..Len(calls[h]) :
                calls[h][i].op = "addLabels" =>
                    /\ ToSet(calls[h][i].labels) = C12_Expected(event[h].files)
                    /\ calls[h][i].issue = event[h].issue
            /\ outcome[h] = "ok" => Ops(h) = <<"listFiles", "addLabels">>

\* the example [src/client/render.cpp, docs/readme.md]
C12_Witness ==
    \E h \in Handlers :
        /\ C12_Labeled(h)
        /\ outcome[h] = "ok"
        /\ event[h].files = <<F_client, F_readme>>
        /\ calls[h][2].op = "addLabels"
        /\ ToSet(calls[h][2].labels) = {"client"}

(***************************************************************************)
(* C13.  An authorized bug command toggles the label bug: on an issue that *)
(* carries bug the handler issues exactly one removeLabel(bug), on an      *)
(* issue that does not it issues exactly one addLabels([bug]).             *)
(***************************************************************************)
C13_BugCommand(h) ==
    /\ Routed(h)
    /\ Authorized(event[h])
    /\ event[h].body = Body(L_bug)
    /\ outcome[h] = "ok"

C13_BugTogglesLabel ==
    \A h \in Handlers :
        C13_BugCommand(h) =>
            /\ Len(Plan(h)) = 1
            /\ Plan(h)[1].issue = event[h].issue
            /\ Plan(h)[1].labels = <<"bug">>
            /\ Plan(h)[1].op =
                    IF "bug" \in labels0[h] THEN "removeLabel" ELSE "addLabels"

(***************************************************************************)
(* C14.  A line that does not begin with the trigger yields no command:    *)
(* whenever the task of a comment is about to issue a call, the line it is *)
(* at begins with the trigger, and a comment none of whose lines begins    *)
(* with the trigger makes the handler issue no call and return.            *)
(***************************************************************************)
C14_Triggered(line) == line # <<>> /\ Head(line) = TRIGGER

C14_NoTriggerNoCommand ==
    \A h \in Handlers :
        (Routed(h) /\ event[h].body.some) =>
            LET ls == lines(event[h].body.text)
            IN  /\ pc[h] \in CallSites =>
                    lineNo[h] \in 1..Len(ls) /\ C14_Triggered(ls[lineNo[h]])
                /\ (\A i \in 1..Len(ls) : ~C14_Triggered(ls[i])) =>
                    calls[h] = <<>> /\ pc[h] = "done" /\ outcome[h] = "ok"

\* an authorized commenter, two lines with a command word or the trigger in
\* them, neither of which begins with the trigger
C14_Witness ==
    \E h \in Handlers :
        /\ Routed(h)
        /\ Authorized(event[h])
        /\ event[h].body = Body(Join(<<L_quoted, L_plain>>, NL))
        /\ pc[h] = "done"
        /\ calls[h] = <<>>

(***************************************************************************)
(* C17.  Leading whitespace before the trigger is trimmed: a comment of an *)
(* authorized commenter makes the handler issue the calls of the commands  *)
(* of its lines with their leading whitespace removed.                     *)
(***************************************************************************)
C17_Trimmed(ls) == [i \in 1..Len(ls) |-> trim_start(ls[i])]

C17_LeadingWhitespaceTrimmed ==
    \A h \in Handlers :
        (Routed(h) /\ Authorized(event[h]) /\ event[h].body.some
            /\ outcome[h] = "ok") =>
            Ops(h) = ExpectedOps(Cmds(C17_Trimmed(lines(event[h].body.text))))

(***************************************************************************)
(* C18.  The file-path labeler collapses duplicates: no label appears more *)
(* than once in the collection it passes to addLabels.                     *)
(***************************************************************************)
C18_PathLabelsWithoutDuplicates ==
    \A h \in Handlers :
        C12_Labeled(h) =>
            \A i \in 1..Len(calls[h]) :
                calls[h][i].op = "addLabels" =>
                    Cardinality(ToSet(calls[h][i].labels)) = Len(calls[h][i].labels)

(***************************************************************************)
(* C15.  Two deliveries about different issues, handled concurrently, are  *)
(* independent: under every interleaving of their calls, once the task of  *)
(* a delivery has returned, the labels and assignees of its issue are      *)
(* those that handling the delivery alone gives.                           *)
(***************************************************************************)
\* what one command does to an issue's labels and assignees
C15_Command(st, c, login, vocabulary) ==
    CASE c.cmd = "claim" -> [st EXCEPT !.assignees = @ \cup {login}]
      [] c.cmd = "unclaim" -> [st EXCEPT !.assignees = @ \ {login}]
      [] c.cmd = "ready" ->
            [st EXCEPT !.labels = (@ \cup {WAITING_FOR_REVIEWS}) \ {WAITING_ON_AUTHOR}]
      [] c.cmd = "author" ->
            [st EXCEPT !.labels = (@ \cup {WAITING_ON_AUTHOR}) \ {WAITING_FOR_REVIEWS}]
      [] c.cmd = "label" ->
            [st EXCEPT !.labels = apply_tokens(@, vocabulary, c.args)]

RECURSIVE C15_Commands(_, _, _, _)
C15_Commands(st, cs, login, vocabulary) ==
    IF cs = <<>> THEN st
    ELSE C15_Commands(C15_Command(st, Head(cs), login, vocabulary), Tail(cs),
                      login, vocabulary)

\* what handling event e alone, without a failing call, does to its issue
C15_Alone(e, st, vocabulary) ==
    IF ~e.installation THEN st
    ELSE CASE e.kind = "PullRequest" /\ e.action \in {"Opened", "Reopened"} ->
                [st EXCEPT !.labels = @ \cup ToSet(labels_of_files(e.files))]
           [] e.kind = "Issues" /\ e.action = "Opened" ->
                [st EXCEPT !.labels = @ \cup {TRIAGE_NEEDED}]
           [] e.kind = "IssueComment" /\ Authorized(e) /\ e.body.some ->
                C15_Commands(st, Cmds(lines(e.body.text)), e.commenter.login,
                             vocabulary)
           [] OTHER -> st

\* the issue before any delivery: the first delivery is about issue 42 and
\* arrives in the initial state, issue 41 starts without labels and assignees
C15_Start(i) ==
    IF i = 42 THEN [labels |-> labels0[1], assignees |-> assignees0[1]]
    ELSE [labels |-> {}, assignees |-> {}]

C15_Now(i) == [labels |-> issueLabels[i], assignees |-> assignees[i]]

C15_Other(h) == IF h = 1 THEN 2 ELSE 1

C16_LabelRace ==
    \A h \in ConcHandlers :
        /\ IsComment(h)
        /\ event[h].issue = 42
        /\ CmdNames(h) = <<"label">>
        /\ pc[h] = "done" /\ outcome[h] = "ok"

C16_Alone(h, from) == apply_tokens(from, repoLabels, CmdsOf(h)[1].args)

C16_Serial ==
    {C16_Alone(2, C16_Alone(1, labels0[1])), C16_Alone(1, C16_Alone(2, labels0[1]))}

C16_Lost == {C16_Alone(1, labels0[1]), C16_Alone(2, labels0[1])}

C16_LastWriterWins ==
    C16_LabelRace => issueLabels[42] \in C16_Serial \cup C16_Lost

\* `label +bug` and `label +client`: either serial order ends with both
\* labels, the race with one of them
C16_Witness ==
    /\ C16_LabelRace
    /\ overlap
    /\ {event[h].body.text : h \in ConcHandlers} = {L_add_bug, L_add_client}
    /\ C16_Serial = {labels0[1] \cup {"bug", "client"}}
    /\ labels0[1] \cap {"bug", "client"} = {}
    /\ issueLabels[42] \notin C16_Serial
    /\ Cardinality(issueLabels[42] \cap {"bug", "client"}) = 1

(***************************************************************************)
(* C19.  When no call fails and an issue starts without carrying both      *)
(* waiting-for-reviews and waiting-on-author, then after the ready and     *)
(* author commands of any deliveries about it, handled one after the other *)
(* or concurrently, once all tasks have finished the issue does not carry  *)
(* both labels.                                                            *)
(***************************************************************************)
C19_Waiting == {WAITING_FOR_REVIEWS, WAITING_ON_AUTHOR}

C19_ReadyAuthorOnly(h) ==
    /\ IsComment(h)
    /\ event[h].body.some
    /\ \A i \in 1..Len(CmdsOf(h)) : CmdsOf(h)[i].cmd \in {"ready", "author"}
    /\ AllOk(h)

C19_NeverBothWaitingLabels ==
    \A i \in Issues :
        (/\ Quiet
         /\ delivered >= 1
         /\ ~(C19_Waiting \subseteq C15_Start(i).labels)
         /\ \A h \in ConcHandlers :
                (pc[h] # "idle" /\ event[h].issue = i) => C19_ReadyAuthorOnly(h)) =>
            ~(C19_Waiting \subseteq issueLabels[i])

\* a ready and an author command handled concurrently, after which the issue
\* has lost the waiting label it started with and carries neither
C19_Witness ==
    /\ Quiet
    /\ overlap
    /\ \A h \in ConcHandlers :
        /\ pc[h] = "done"
        /\ event[h].issue = 42
        /\ C19_ReadyAuthorOnly(h)
        /\ CmdsOf(h) # <<>>
    /\ labels0[1] \cap C19_Waiting # {}
    /\ ~(C19_Waiting \subseteq labels0[1])
    /\ issueLabels[42] \cap C19_Waiting = {}

(***************************************************************************)
(* C20.  The assignees of an issue change only by a claim or unclaim line  *)
(* of a comment on that issue from an authorized commenter, and then only  *)
(* by that commenter's own login being added (claim) or removed (unclaim); *)
(* no other event kind changes assignees.                                  *)
(***************************************************************************)
C20_OwnAssignment(h, i) ==
    /\ IsComment(h)
    /\ Authorized(event[h])
    /\ event[h].issue = i
    /\ calls'[h] # calls[h]
    /\ lineNo[h] \in 1..Len(lines(event[h].body.text))
    /\ LET cmd == command_of(lines(event[h].body.text)[lineNo[h]]).cmd
           login == event[h].commenter.login
       IN  \/ cmd = "claim" /\ assignees'[i] = assignees[i] \cup {login}
           \/ cmd = "unclaim" /\ assignees'[i] = assignees[i] \ {login}

C20_OnlyOwnAssignmentChanges ==
    [][\A i \in Issues :
        assignees'[i] # assignees[i] => \E h \in Handlers : C20_OwnAssignment(h, i)]_vars

\* bob claimed the issue, after alice did or unclaimed
C20_Witness ==
    \E h \in Handlers :
        /\ IsComment(h)
        /\ outcome[h] = "ok"
        /\ event[h].commenter = bob
        /\ "bob" \in assignees[42]
        /\ "bob" \notin assignees0[h]
        /\ h > 1 /\ event[1].commenter = alice /\ assignees0[1] # assignees0[h]

====
